---- MODULE Spec2Model ----
(***************************************************************************)
(* Segmented transcription pipeline of the Parakeet transcription server:  *)
(* the reconciler `_process_transcription_output`, the driver              *)
(* `transcribe_audio_file` and the lazily loaded shared model handle.      *)
(*                                                                         *)
(* Conventions of the model                                                *)
(*  - A Python str is a sequence of one-character strings, so that         *)
(*    " ".join(...) and .strip() are computed, not assumed.                *)
(*  - Times are held in milliseconds.  The code holds seconds as floats;   *)
(*    the only offsets it ever passes on are whole multiples of            *)
(*    segment_length_ms / 1000.0, which floats represent exactly.          *)
(*  - One action is one run of code between two suspension points          *)
(*    (`await`) of the asyncio event loop; export and os.remove are        *)
(*    blocking calls inside such a run.  The blocking model.transcribe     *)
(*    call is held open as a state (in_model), during which the event      *)
(*    loop resumes no other coroutine.                                     *)
(***************************************************************************)
EXTENDS Integers, Sequences, FiniteSets, TLC

VARIABLES
    st,         \* per request: the locals of transcribe_audio_file and its position
    disk,       \* TEMP_AUDIO_DIR: the set of <<path, writer>> of the files in it
    ASR_MODEL,  \* the module-level model handle (0 is None)
    loads,      \* how many times ASRModel.from_pretrained has returned a model
    rc_in,      \* arguments of a direct call of _process_transcription_output,
                \* or of the formatter and the response-building code of the tool
    rc_out      \* what that call returned or raised

vars == <<st, disk, ASR_MODEL, loads, rc_in, rc_out>>

(***************************************************************************)
(* Bounds of the model.                                                    *)
(***************************************************************************)
MaxSegmentMinutes == 2      \* segment_length_minutes ranges over 1..MaxSegmentMinutes
MaxAudioMinutes == 2        \* audio lasts at most MaxAudioMinutes minutes and 1 ms
MaxItems == 2               \* entries per raw timestamp list in a direct reconciler call
MaxOffsetMinutes == 1       \* offsets of a direct reconciler call: 0..MaxOffsetMinutes minutes
MaxLoadCalls == 2           \* load_model calls per caller when load_model is run on its own
MaxWords == 3               \* word entries of a result given to the formatter

MsPerMinute == 60 * 1000

(***************************************************************************)
(* Python strings.                                                         *)
(***************************************************************************)
SP == <<" ">>

RECURSIVE Join(_)
\* " ".join(parts)
Join(parts) ==
    IF Len(parts) = 0 THEN <<>>
    ELSE IF Len(parts) = 1 THEN parts[1]
    ELSE parts[1] \o SP \o Join(Tail(parts))

RECURSIVE LStrip(_)
LStrip(s) == IF Len(s) > 0 /\ s[1] = " " THEN LStrip(Tail(s)) ELSE s

RECURSIVE RStrip(_)
RStrip(s) ==
    IF Len(s) > 0 /\ s[Len(s)] = " " THEN RStrip(SubSeq(s, 1, Len(s) - 1)) ELSE s

StripNothing(s) == s

\* s.strip()
Strip(s) == RStrip(LStrip(s))

(***************************************************************************)
(* Raw model output: what model.transcribe([path], timestamps=...) gives.  *)
(* nemo_output is a list; an element is None, a str, or a hypothesis       *)
(* object with a `text` and a `timestamp` attribute.  `timestamp` is None, *)
(* a dict with the keys 'word', 'char', 'segment', or something else.      *)
(***************************************************************************)
NoList == [kind |-> "missing", items |-> <<>>]
AList(items) == [kind |-> "list", items |-> items]

NoTimestamp == [kind |-> "none", word |-> NoList, char |-> NoList, segment |-> NoList]
OtherTimestamp == [kind |-> "other", word |-> NoList, char |-> NoList, segment |-> NoList]
DictTimestamp(w, c, s) == [kind |-> "dict", word |-> w, char |-> c, segment |-> s]

NoneElem == [kind |-> "none", text |-> <<>>, timestamp |-> NoTimestamp]
StrElem(s) == [kind |-> "str", text |-> s, timestamp |-> NoTimestamp]
Hyp(text, ts) == [kind |-> "hyp", text |-> text, timestamp |-> ts]

\* values found under a key of a raw timestamp entry
VNone == [t |-> "none", s |-> <<>>, n |-> 0]
VStr(s) == [t |-> "str", s |-> s, n |-> 0]
VNum(n) == [t |-> "num", s |-> <<>>, n |-> n]
VList(s) == [t |-> "list", s |-> s, n |-> 0]          \* [s]: a list whose first element is the str s
VEmptyList == [t |-> "empty_list", s |-> <<>>, n |-> 0]
VListNone == [t |-> "list_none", s |-> <<>>, n |-> 0]  \* [None]

Entry(txt, start, end) == [shape |-> "dict", txt |-> txt, start |-> start, end |-> end]
NonDictEntry == [shape |-> "other", txt |-> VNone, start |-> VNone, end |-> VNone]

\* a processed WordTimestamp / SegmentTimestamp / CharTimestamp
Stamp(text, start, end) == [text |-> text, start_time |-> start, end_time |-> end]

(***************************************************************************)
(* _process_transcription_output                                           *)
(***************************************************************************)
PlainTextEmptied(s, warns) ==
    [kind |-> "str", error |-> "", text |-> <<>>, word_timestamps |-> <<>>,
     segment_timestamps |-> <<>>, char_timestamps |-> <<>>, warnings |-> warns]

\* what the reconciler and the driver hand back
Raised(err) ==
    [kind |-> "raise", error |-> err, text |-> <<>>, word_timestamps |-> <<>>,
     segment_timestamps |-> <<>>, char_timestamps |-> <<>>, warnings |-> <<>>]
PlainText(s, warns) ==
    [kind |-> "str", error |-> "", text |-> s, word_timestamps |-> <<>>,
     segment_timestamps |-> <<>>, char_timestamps |-> <<>>, warnings |-> warns]
TranscriptionResult(text, words, segs, chars, warns) ==
    [kind |-> "result", error |-> "", text |-> text, word_timestamps |-> words,
     segment_timestamps |-> segs, char_timestamps |-> chars, warnings |-> warns]

\* Python truth value of nemo_output[0]
Falsy(elem) == elem.kind = "none" \/ (elem.kind = "str" /\ Len(elem.text) = 0)

IsEmptyOutputListOnly(nemo_output) == Len(nemo_output) = 0

\* `not nemo_output or not nemo_output[0]`
IsEmptyOutput(nemo_output) == Len(nemo_output) = 0 \/ Falsy(nemo_output[1])

\* state of one of the three loops: the processed entries, the warnings, and
\* whether an exception escaped the loop
Scan(kept, warns, raised) == [kept |-> kept, warnings |-> warns, raised |-> raised]

\* one word or segment entry: the body of the loops at lines 122-139 and 166-183
TextEntryStep(acc, item, offset, name) ==
    IF item.shape # "dict" THEN
        Scan(acc.kept, Append(acc.warnings, <<name, "nondict">>), FALSE)
    ELSE IF item.txt.t = "none" \/ item.start.t = "none" \/ item.end.t = "none" THEN
        Scan(acc.kept, Append(acc.warnings, <<name, "missing">>), FALSE)
    ELSE IF item.start.t # "num" \/ item.end.t # "num" THEN
        \* start_time + offset_seconds raises TypeError; only ValidationError is caught
        Scan(acc.kept, acc.warnings, TRUE)
    ELSE IF item.txt.t # "str" THEN
        \* the pydantic model rejects a non-str text: ValidationError, caught
        Scan(acc.kept, Append(acc.warnings, <<name, "validation">>), FALSE)
    ELSE
        Scan(Append(acc.kept,
                    Stamp(item.txt.s, item.start.n + offset, item.end.n + offset)),
             acc.warnings, FALSE)

\* one char entry: the body of the loop at lines 143-162
CharEntryStep(acc, item, offset) ==
    IF item.shape # "dict" THEN
        Scan(acc.kept, Append(acc.warnings, <<"char", "nondict">>), FALSE)
    ELSE IF item.txt.t # "list" \/ item.start.t = "none" \/ item.end.t = "none" THEN
        Scan(acc.kept, Append(acc.warnings, <<"char", "missing">>), FALSE)
    ELSE IF item.start.t # "num" \/ item.end.t # "num" THEN
        \* TypeError, caught by `except (ValidationError, IndexError, TypeError)`
        Scan(acc.kept, Append(acc.warnings, <<"char", "error">>), FALSE)
    ELSE
        Scan(Append(acc.kept,
                    Stamp(item.txt.s, item.start.n + offset, item.end.n + offset)),
             acc.warnings, FALSE)

RECURSIVE ScanTextList(_, _, _, _)
ScanTextList(acc, items, offset, name) ==
    IF acc.raised \/ Len(items) = 0 THEN acc
    ELSE ScanTextList(TextEntryStep(acc, Head(items), offset, name),
                      Tail(items), offset, name)

RECURSIVE ScanCharList(_, _, _)
ScanCharList(acc, items, offset) ==
    IF Len(items) = 0 THEN acc
    ELSE ScanCharList(CharEntryStep(acc, Head(items), offset), Tail(items), offset)

\* `if isinstance(x_list, list): for item in x_list: ...`
ScanWords(lst, offset) ==
    IF lst.kind = "list" THEN ScanTextList(Scan(<<>>, <<>>, FALSE), lst.items, offset, "word")
    ELSE Scan(<<>>, <<>>, FALSE)
ScanSegments(lst, offset) ==
    IF lst.kind = "list" THEN ScanTextList(Scan(<<>>, <<>>, FALSE), lst.items, offset, "segment")
    ELSE Scan(<<>>, <<>>, FALSE)
ScanChars(lst, offset) ==
    IF lst.kind = "list" THEN ScanCharList(Scan(<<>>, <<>>, FALSE), lst.items, offset)
    ELSE Scan(<<>>, <<>>, FALSE)

Texts(stamps) == [k \in 1..Len(stamps) |-> stamps[k].text]

ReconstructTextWordsFirst(verbatim, segs, words) ==
    IF Len(words) > 0 THEN Join(Texts(words))
    ELSE IF Len(segs) > 0 THEN Join(Texts(segs))
    ELSE verbatim

ReconstructTextNoFallback(verbatim, segs, words) ==
    IF Len(segs) > 0 THEN Join(Texts(segs))
    ELSE IF Len(words) > 0 THEN Join(Texts(words))
    ELSE <<>>

\* lines 191-194: the text of a chunk, rebuilt from its processed timestamps
ReconstructText(verbatim, segs, words) ==
    IF Len(segs) > 0 THEN Join(Texts(segs))
    ELSE IF Len(words) > 0 THEN Join(Texts(words))
    ELSE verbatim

\* lines 196-200: `not timestamp_data_dict` is true of None and of an empty dict
StructureWarnings(ts, words, chars, segs) ==
    IF ts.kind = "none"
       \/ (ts.kind = "dict" /\ ts.word.kind = "missing" /\ ts.char.kind = "missing"
               /\ ts.segment.kind = "missing")
    THEN <<<<"timestamp", "no_data">>>>
    ELSE IF Len(words) = 0 /\ Len(chars) = 0 /\ Len(segs) = 0
    THEN <<<<"timestamp", "none_valid">>>>
    ELSE <<>>

\* lines 112-207: the include_timestamps branch, for a hypothesis object
ProcessWithTimestamps(hyp, offset) ==
    LET ts == hyp.timestamp
        w == IF ts.kind = "dict" THEN ScanWords(ts.word, offset) ELSE Scan(<<>>, <<>>, FALSE)
        c == IF ts.kind = "dict" /\ ~w.raised THEN ScanChars(ts.char, offset)
             ELSE Scan(<<>>, <<>>, FALSE)
        s == IF ts.kind = "dict" /\ ~w.raised THEN ScanSegments(ts.segment, offset)
             ELSE Scan(<<>>, <<>>, FALSE)
        shape == IF ts.kind = "other" THEN <<<<"timestamp", "not_dict">>>> ELSE <<>>
    IN  IF w.raised \/ s.raised THEN Raised("TypeError")
        ELSE TranscriptionResult(
                 ReconstructText(hyp.text, s.kept, w.kept),
                 w.kept, s.kept, c.kept,
                 w.warnings \o c.warnings \o s.warnings \o shape
                     \o StructureWarnings(ts, w.kept, c.kept, s.kept))

\* _process_transcription_output(ctx, nemo_output, audio_path, include_timestamps, offset_seconds)
ProcessOutput(nemo_output, include_timestamps, offset) ==
    IF IsEmptyOutput(nemo_output) THEN Raised("EmptyResult")
    ELSE LET result_obj == nemo_output[1]
         IN  IF result_obj.kind = "str" THEN PlainText(result_obj.text, <<>>)
             ELSE IF result_obj.kind = "none" THEN
                 \* only reachable without the emptiness check: getattr(None, 'text', "")
                 IF include_timestamps
                 THEN TranscriptionResult(<<>>, <<>>, <<>>, <<>>, <<<<"timestamp", "no_data">>>>)
                 ELSE PlainText(<<>>, <<<<"output", "unexpected_format">>>>)
             ELSE IF include_timestamps THEN ProcessWithTimestamps(result_obj, offset)
             ELSE PlainText(result_obj.text, <<>>)

(***************************************************************************)
(* Request objects and files.                                              *)
(***************************************************************************)
Reqs == {"r1", "r2"}

\* a path: directory, stem and extension; a chunk file also carries
\* "_segment_<seg>_of_<of>" in its name (seg = 0 for any other file)
FilePath(dir, stem, ext) == [dir |-> dir, stem |-> stem, seg |-> 0, of |-> 0, ext |-> ext]

TEMP_AUDIO_DIR == "temp_audio"

\* lines 297-298 and 315-316: the chunk file of chunk i of request r
SegmentPath(r, audio_path, i, num_segments) ==
    [dir |-> TEMP_AUDIO_DIR, stem |-> audio_path.stem, seg |-> i + 1,
     of |-> num_segments, ext |-> audio_path.ext]

\* TranscriptionInput declares audio_path and include_timestamps only: pydantic
\* ignores the undeclared keyword segment_length_minutes, and the object built
\* has no such attribute
TranscriptionInput(audio_path, include_timestamps, segment_length_minutes) ==
    [audio_path |-> audio_path, include_timestamps |-> include_timestamps]

\* an argument of transcribe_audio_file that has the three attributes it reads
InputData(audio_path, include_timestamps, segment_length_minutes) ==
    [audio_path |-> audio_path, include_timestamps |-> include_timestamps,
     segment_length_minutes |-> segment_length_minutes]

Exists(d, p) == \E f \in d : f.path = p
Written(d, p, r) == {f \in d : f.path # p} \cup {[path |-> p, writer |-> r]}
Removed(d, ps) == {f \in d : f.path \notin ps}

(***************************************************************************)
(* Chunk plan: lines 265, 280, 286, 311-312, 343.                          *)
(***************************************************************************)
SegmentLengthMs(segment_length_minutes) == segment_length_minutes * 60 * 1000

FitsOneSegmentStrict(duration_ms, segment_length_ms) == duration_ms < segment_length_ms

\* line 280
FitsOneSegment(duration_ms, segment_length_ms) == duration_ms <= segment_length_ms

\* line 286: math.ceil(duration_ms / segment_length_ms)
NumSegments(duration_ms, segment_length_ms) ==
    (duration_ms + segment_length_ms - 1) \div segment_length_ms

StartMs(i, segment_length_ms) == i * segment_length_ms

EndMsNominal(i, segment_length_ms, duration_ms) == (i + 1) * segment_length_ms

\* line 312
EndMs(i, segment_length_ms, duration_ms) ==
    IF (i + 1) * segment_length_ms < duration_ms
    THEN (i + 1) * segment_length_ms ELSE duration_ms

NextOffsetStale(offset, start_ms, end_ms) == offset

\* line 343 (in milliseconds)
NextOffset(offset, start_ms, end_ms) == offset + (end_ms - start_ms)

(***************************************************************************)
(* State of a request.                                                     *)
(***************************************************************************)
Pending ==
    [kind |-> "pending", error |-> "", text |-> <<>>, word_timestamps |-> <<>>,
     segment_timestamps |-> <<>>, char_timestamps |-> <<>>, warnings |-> <<>>]

NoPath == FilePath("", "", "")

\* the state of a transcribe_audio tool call: its arguments, the path
\* convert_to_audio returned (NoPath: None), the file the conversion wrote,
\* what the call raised or returned, and what its cleanup did
NoTool ==
    [pc |-> "none", audio_file_path |-> NoPath, output_format |-> "",
     converted_audio_path |-> NoPath, wrote |-> NoPath,
     outcome |-> "pending", error |-> "", cleanup |-> "none",
     response |-> [kind |-> "response", message |-> "", transcription |-> <<>>]]

Idle ==
    [pc |-> "idle",
     input_data |-> TranscriptionInput(NoPath, FALSE, 0),
     model |-> 0, segment_length_ms |-> 0, duration_ms |-> 0, num_segments |-> 0,
     i |-> 0, temp_segment_paths |-> <<>>, current_offset |-> 0,
     all_texts |-> <<>>, all_word_timestamps |-> <<>>,
     all_segment_timestamps |-> <<>>, all_char_timestamps |-> <<>>,
     j |-> 0, outcome |-> Pending,
     \* history of the call, for the properties
     calls |-> <<>>, plan |-> <<>>, exports |-> <<>>, progress |-> <<>>,
     outputs |-> <<>>, failed_at |-> 0,
     in_model |-> FALSE,        \* inside the blocking model.transcribe call
     remove_failed |-> 0,       \* how many os.remove calls of the run have raised
     requested_minutes |-> 0,   \* segment_length_minutes given to the tool (0: no tool call)
     load_calls |-> <<>>,       \* one entry per load_model call of the caller
     tool |-> NoTool]           \* the tool call that runs the request, if any

Set(r, rec) == st' = [st EXCEPT ![r] = rec]

Fail(r, err) == Set(r, [st[r] EXCEPT !.pc = "done", !.outcome = Raised(err)])

(***************************************************************************)
(* load_model                                                              *)
(***************************************************************************)
\* a caller enters transcribe_audio_file(ctx, input_data)
Start(r, inputs) ==
    /\ st[r].pc = "idle"
    /\ \E inp \in inputs :
           Set(r, [st[r] EXCEPT !.pc = "load_check", !.input_data = inp])
    /\ UNCHANGED <<disk, ASR_MODEL, loads, rc_in, rc_out>>

\* the tool and the endpoint build the request object from their arguments
\* and hand it to transcribe_audio_file (server.py:119-128, api/main.py:161-170)
ToolCall(r, paths, minutes) ==
    /\ st[r].pc = "idle"
    /\ \E p \in paths, ts \in BOOLEAN, m \in minutes :
           Set(r, [st[r] EXCEPT !.pc = "load_check",
                                !.input_data = TranscriptionInput(p, ts, m),
                                !.requested_minutes = m])
    /\ UNCHANGED <<disk, ASR_MODEL, loads, rc_in, rc_out>>

\* the record of one load_model call: the handle its check saw, what became of
\* the initialization ("skipped", "pending", "ok", "failed"), the handle just
\* before and just after from_pretrained, and the handle returned (0: none yet)
LoadCall(seen, init) ==
    [seen |-> seen, init |-> init, before |-> 0, after |-> 0, returned |-> 0]

\* line 39: `ASR_MODEL is not None`
IsLoaded(handle) == handle # 0

\* lines 38-41: `if ASR_MODEL is not None`
LoadCheck(r) ==
    /\ st[r].pc = "load_check"
    /\ Set(r, [st[r] EXCEPT
           !.pc = IF IsLoaded(ASR_MODEL) THEN "load_return" ELSE "load_init",
           !.load_calls = Append(@, LoadCall(ASR_MODEL,
                              IF IsLoaded(ASR_MODEL) THEN "skipped" ELSE "pending"))])
    /\ UNCHANGED <<disk, ASR_MODEL, loads, rc_in, rc_out>>

\* load_model with a second check under a lock: what the code does not do
LoadInitRechecked(r) ==
    /\ st[r].pc = "load_init"
    /\ LET n == Len(st[r].load_calls)
       IN  IF IsLoaded(ASR_MODEL)
           THEN /\ Set(r, [st[r] EXCEPT !.pc = "load_return",
                                        !.load_calls[n].init = "skipped",
                                        !.load_calls[n].before = ASR_MODEL,
                                        !.load_calls[n].after = ASR_MODEL])
                /\ UNCHANGED <<ASR_MODEL, loads>>
           ELSE /\ ASR_MODEL' = loads + 1
                /\ loads' = loads + 1
                /\ Set(r, [st[r] EXCEPT !.pc = "load_return",
                                        !.load_calls[n].init = "ok",
                                        !.load_calls[n].before = ASR_MODEL,
                                        !.load_calls[n].after = ASR_MODEL'])
    /\ UNCHANGED <<disk, rc_in, rc_out>>

\* load_model assigning before it knows the load succeeded: what the code
\* does not do
LoadInitKeepsFailedHandle(r) ==
    /\ st[r].pc = "load_init"
    /\ LET n == Len(st[r].load_calls)
       IN  \/ /\ ASR_MODEL' = loads + 1
              /\ loads' = loads + 1
              /\ Set(r, [st[r] EXCEPT !.pc = "load_return",
                                      !.load_calls[n].init = "ok",
                                      !.load_calls[n].before = ASR_MODEL,
                                      !.load_calls[n].after = ASR_MODEL'])
           \/ /\ ASR_MODEL' = -1
              /\ loads' = loads
              /\ Set(r, [st[r] EXCEPT !.pc = "done",
                                      !.outcome = Raised("ModelLoadError"),
                                      !.load_calls[n].init = "failed",
                                      !.load_calls[n].before = ASR_MODEL,
                                      !.load_calls[n].after = ASR_MODEL'])
    /\ UNCHANGED <<disk, rc_in, rc_out>>

\* lines 51-62: from_pretrained returns a new model, which line 54 assigns to
\* the global, or raises, and the global is left as it is
LoadInit(r) ==
    /\ st[r].pc = "load_init"
    /\ LET n == Len(st[r].load_calls)
       IN  \/ /\ ASR_MODEL' = loads + 1
              /\ loads' = loads + 1
              /\ Set(r, [st[r] EXCEPT !.pc = "load_return",
                                      !.load_calls[n].init = "ok",
                                      !.load_calls[n].before = ASR_MODEL,
                                      !.load_calls[n].after = ASR_MODEL'])
           \/ /\ UNCHANGED <<ASR_MODEL, loads>>
              /\ Set(r, [st[r] EXCEPT !.pc = "done",
                                      !.outcome = Raised("ModelLoadError"),
                                      !.load_calls[n].init = "failed",
                                      !.load_calls[n].before = ASR_MODEL,
                                      !.load_calls[n].after = ASR_MODEL'])
    /\ UNCHANGED <<disk, rc_in, rc_out>>

\* lines 41 and 64: `return ASR_MODEL`, read after the last await
LoadReturn(r) ==
    /\ st[r].pc = "load_return"
    /\ Set(r, [st[r] EXCEPT !.pc = "read_input", !.model = ASR_MODEL,
                            !.load_calls[Len(st[r].load_calls)].returned = ASR_MODEL])
    /\ UNCHANGED <<disk, ASR_MODEL, loads, rc_in, rc_out>>

\* load_model has returned or raised, and its caller calls it again (it is
\* called by every transcription and by get_asr_model_info, server.py:179)
LoadAgain(r) ==
    /\ \/ st[r].pc = "read_input"
       \/ st[r].pc = "done" /\ st[r].outcome = Raised("ModelLoadError")
    /\ Len(st[r].load_calls) < MaxLoadCalls
    /\ Set(r, [st[r] EXCEPT !.pc = "load_check", !.outcome = Pending])
    /\ UNCHANGED <<disk, ASR_MODEL, loads, rc_in, rc_out>>

(***************************************************************************)
(* transcribe_audio_file                                                   *)
(***************************************************************************)
\* lines 263-265
ReadInput(r) ==
    /\ st[r].pc = "read_input"
    /\ IF "segment_length_minutes" \in DOMAIN st[r].input_data
       THEN Set(r, [st[r] EXCEPT
                !.pc = "load_audio",
                !.segment_length_ms = SegmentLengthMs(st[r].input_data.segment_length_minutes)])
       ELSE Fail(r, "AttributeError")
    /\ UNCHANGED <<disk, ASR_MODEL, loads, rc_in, rc_out>>

\* lines 269-308: decode the audio, take its length, choose the branch.  (The
\* os.makedirs of lines 302-308 creates the directory, never a chunk file.)
LoadAudio(r, durations) ==
    /\ st[r].pc = "load_audio"
    /\ \/ \E d \in durations :
             Set(r, IF FitsOneSegment(d, st[r].segment_length_ms)
                    THEN [st[r] EXCEPT !.duration_ms = d, !.pc = "single"]
                    ELSE IF st[r].segment_length_ms = 0
                    THEN \* line 286 divides by segment_length_ms
                         [st[r] EXCEPT !.duration_ms = d, !.pc = "done",
                                       !.outcome = Raised("ZeroDivisionError")]
                    ELSE [st[r] EXCEPT
                             !.duration_ms = d, !.pc = "export",
                             !.num_segments = NumSegments(d, st[r].segment_length_ms)])
       \/ Fail(r, "AudioDecodeError")
    /\ UNCHANGED <<disk, ASR_MODEL, loads, rc_in, rc_out>>

\* the arguments of one _transcribe_single_file_segment call
Call(path, include_timestamps, offset) ==
    [path |-> path, timestamps |-> include_timestamps, offset |-> offset]

RunnableAlways(r) == TRUE

\* lines 227-230: model.transcribe is an ordinary blocking call made on the
\* event-loop thread; until it returns, the loop runs no other coroutine
Runnable(r) == \A q \in Reqs \ {r} : ~st[q].in_model

\* lines 226-227: _transcribe_single_file_segment enters model.transcribe
BeginModelCall(r) ==
    /\ st[r].pc \in {"single", "transcribe"}
    /\ ~st[r].in_model
    /\ Set(r, [st[r] EXCEPT !.in_model = TRUE])
    /\ UNCHANGED <<disk, ASR_MODEL, loads, rc_in, rc_out>>

\* line 282: the whole file in one model call
TranscribeDirect(r, outs) ==
    /\ st[r].pc = "single"
    /\ st[r].in_model
    /\ LET s == [st[r] EXCEPT !.in_model = FALSE]
           call == Call(s.input_data.audio_path, s.input_data.include_timestamps, 0)
       IN  \/ Set(r, [s EXCEPT !.pc = "done", !.calls = Append(@, call),
                               !.outcome = Raised("ModelError")])
           \/ \E out \in outs :
                  Set(r, [s EXCEPT
                      !.pc = "done", !.calls = Append(@, call),
                      !.outputs = Append(@, out),
                      !.outcome = ProcessOutput(out, s.input_data.include_timestamps, 0)])
    /\ UNCHANGED <<disk, ASR_MODEL, loads, rc_in, rc_out>>

ProgressReportAfter(progress, total) == <<progress + 1, total>>

\* lines 329 and 345: ctx.report_progress(progress=..., total=num_segments)
ProgressReport(progress, total) == <<progress, total>>

\* lines 311-329: slice chunk i and export it
Export(r) ==
    /\ st[r].pc = "export"
    /\ LET s == st[r]
           start_ms == StartMs(s.i, s.segment_length_ms)
           end_ms == EndMs(s.i, s.segment_length_ms, s.duration_ms)
           segment_path == SegmentPath(r, s.input_data.audio_path, s.i, s.num_segments)
           paths == Append(s.temp_segment_paths, segment_path)
       IN  \/ /\ disk' = Written(disk, segment_path, r)
              /\ Set(r, [s EXCEPT !.pc = "transcribe", !.temp_segment_paths = paths,
                                  !.plan = Append(@, <<start_ms, end_ms>>),
                                  !.exports = Append(@, s.i),
                                  !.progress = Append(@, ProgressReport(s.i, s.num_segments))])
           \/ \* segment.export raises; it may have left a partial file
              /\ disk' \in {disk, Written(disk, segment_path, r)}
              /\ Set(r, [s EXCEPT !.pc = "export_failed", !.temp_segment_paths = paths,
                                  !.plan = Append(@, <<start_ms, end_ms>>),
                                  !.failed_at = s.i])
    /\ UNCHANGED <<ASR_MODEL, loads, rc_in, rc_out>>

\* the paths among ps[1..k] that are on disk d
ExistingUpTo(d, ps, k) == {ps[m] : m \in {n \in 1..k : Exists(d, ps[n])}}

\* lines 324-327: `for p in temp_segment_paths: if os.path.exists(p): os.remove(p)`,
\* then raise ValueError; an os.remove that raises ends the loop with its OSError
ExportFailureCleanup(r) ==
    /\ st[r].pc = "export_failed"
    /\ LET s == st[r]
           ps == s.temp_segment_paths
       IN  \/ /\ disk' = Removed(disk, ExistingUpTo(disk, ps, Len(ps)))
              /\ Fail(r, "SegmentExportError")
           \/ \E k \in 1..Len(ps) :
                 /\ Exists(disk, ps[k])
                 /\ disk' = Removed(disk, ExistingUpTo(disk, ps, k - 1))
                 /\ Set(r, [s EXCEPT !.pc = "done", !.outcome = Raised("OSError"),
                                     !.remove_failed = @ + 1])
    /\ UNCHANGED <<ASR_MODEL, loads, rc_in, rc_out>>

AccumulatePrepend(s, res) ==
    [s EXCEPT
        !.all_texts = Append(@, res.text),
        !.all_word_timestamps = res.word_timestamps \o @,
        !.all_segment_timestamps = res.segment_timestamps \o @,
        !.all_char_timestamps = res.char_timestamps \o @]

\* lines 335-341: accumulate one chunk's result
Accumulate(s, res) ==
    [s EXCEPT
        !.all_texts = Append(@, res.text),
        !.all_word_timestamps = @ \o res.word_timestamps,
        !.all_segment_timestamps = @ \o res.segment_timestamps,
        !.all_char_timestamps = @ \o res.char_timestamps]

\* lines 331-345: transcribe chunk i, reconcile at the current offset, accumulate
TranscribeSegment(r, outs) ==
    /\ st[r].pc = "transcribe"
    /\ st[r].in_model
    /\ LET s == [st[r] EXCEPT !.in_model = FALSE]
           segment_path == s.temp_segment_paths[Len(s.temp_segment_paths)]
           call == Call(segment_path, s.input_data.include_timestamps, s.current_offset)
           start_ms == StartMs(s.i, s.segment_length_ms)
           end_ms == EndMs(s.i, s.segment_length_ms, s.duration_ms)
           last == s.i + 1 = s.num_segments
       IN  \/ \* model.transcribe raises (always so when the file is gone)
              Set(r, [s EXCEPT !.pc = "done", !.calls = Append(@, call),
                               !.outcome = Raised("ModelError")])
           \/ /\ Exists(disk, segment_path)
              /\ \E out \in outs :
                   LET res == ProcessOutput(out, s.input_data.include_timestamps,
                                            s.current_offset)
                   IN  IF res.kind = "raise"
                       THEN Set(r, [s EXCEPT !.pc = "done", !.calls = Append(@, call),
                                             !.outputs = Append(@, out),
                                             !.outcome = res])
                       ELSE Set(r, [Accumulate(s, res) EXCEPT
                                !.calls = Append(@, call),
                                !.outputs = Append(@, out),
                                !.current_offset = NextOffset(@, start_ms, end_ms),
                                !.i = s.i + 1,
                                !.progress = IF last
                                             THEN Append(@, ProgressReport(s.num_segments,
                                                                         s.num_segments))
                                             ELSE @,
                                !.j = 1,
                                !.pc = IF last THEN "cleanup" ELSE "export"])
    /\ UNCHANGED <<disk, ASR_MODEL, loads, rc_in, rc_out>>

\* lines 348-354: one iteration of the final cleanup loop
CleanupStep(r) ==
    /\ st[r].pc = "cleanup"
    /\ st[r].j <= Len(st[r].temp_segment_paths)
    /\ LET s == st[r]
           seg_path == s.temp_segment_paths[s.j]
       IN  \/ /\ disk' = Removed(disk, {seg_path})
              /\ Set(r, [s EXCEPT !.j = s.j + 1])
           \/ \* os.remove raises: a warning is logged
              /\ Exists(disk, seg_path)
              /\ disk' = disk
              /\ Set(r, [s EXCEPT !.j = s.j + 1, !.remove_failed = @ + 1])
    /\ UNCHANGED <<ASR_MODEL, loads, rc_in, rc_out>>

\* lines 356-366
Finish(r) ==
    /\ st[r].pc = "cleanup"
    /\ st[r].j > Len(st[r].temp_segment_paths)
    /\ LET s == st[r]
           final_text == Strip(Join(s.all_texts))
       IN  Set(r, [s EXCEPT
               !.pc = "done",
               !.outcome = IF ~s.input_data.include_timestamps
                           THEN PlainText(final_text, <<>>)
                           ELSE TranscriptionResult(final_text, s.all_word_timestamps,
                                    s.all_segment_timestamps, s.all_char_timestamps, <<>>)])
    /\ UNCHANGED <<disk, ASR_MODEL, loads, rc_in, rc_out>>

(***************************************************************************)
(* _format_transcription_output, and the response the tool builds.         *)
(***************************************************************************)
NL == <<"\n">>

DigitChars == <<"0", "1", "2", "3", "4", "5", "6", "7", "8", "9">>

RECURSIVE Digits(_)
\* the decimal digits of a natural number
Digits(n) ==
    IF n < 10 THEN <<DigitChars[n + 1]>>
    ELSE Digits(n \div 10) \o <<DigitChars[(n % 10) + 1]>>

\* f"[{word_start_time:.2f}s] " for a start time of `ms` milliseconds: the
\* time rounded to hundredths of a second (a tie, which binary floating point
\* decides, does not occur among the start times formatted)
Marker(ms) ==
    LET hundredths == (ms + 5) \div 10
    IN  <<"[">> \o Digits(hundredths \div 100) \o <<".">>
            \o <<DigitChars[((hundredths % 100) \div 10) + 1],
                 DigitChars[(hundredths % 10) + 1]>>
            \o <<"s", "]", " ">>

\* a word entry as the formatter reads it: word_obj.word, and
\* word_obj.start_time, which is a number or (in a dict entry) None
FormatWord(word, start_time) == [word |-> word, start_time |-> start_time]

\* what the formatter is given: a TranscriptionResult, or a str where the
\* tool's response code is given the driver's plain text
FormatData(kind, text, words) == [kind |-> kind, text |-> text, word_timestamps |-> words]

IsBlankNever(word_text) == FALSE

\* line 43: `not word_text.strip()`
IsBlank(word_text) == Len(Strip(word_text)) = 0

OverflowsAtLimit(prefix, content, segment, limit) ==
    Len(prefix \o content \o segment) >= limit

OverflowsWithoutPrefix(prefix, content, segment, limit) ==
    Len(content \o segment) > limit

\* lines 51 and 64
Overflows(prefix, content, segment, limit) ==
    Len(prefix \o content \o segment) > limit

\* formatted_lines, current_line_prefix, current_line_content
Packing(lines, prefix, content) == [lines |-> lines, prefix |-> prefix, content |-> content]

\* lines 43-69: one iteration of the loop over the words
PackWord(acc, word_obj, limit) ==
    LET word_text == word_obj.word
        segment == IF Len(acc.content) > 0 THEN SP \o word_text ELSE word_text
        new_prefix == IF word_obj.start_time.t = "num"
                      THEN Marker(word_obj.start_time.n) ELSE <<>>
    IN  IF IsBlank(word_text) THEN acc
        ELSE IF Len(acc.content) = 0 THEN
            \* an entry without start time leaves the prefix as it is
            Packing(acc.lines,
                    IF word_obj.start_time.t = "num" THEN new_prefix ELSE acc.prefix,
                    word_text)
        ELSE IF Overflows(acc.prefix, acc.content, segment, limit) THEN
            Packing(Append(acc.lines, acc.prefix \o acc.content), new_prefix, word_text)
        ELSE Packing(acc.lines, acc.prefix, acc.content \o segment)

RECURSIVE PackWords(_, _, _)
PackWords(acc, words, limit) ==
    IF Len(words) = 0 THEN acc
    ELSE PackWords(PackWord(acc, Head(words), limit), Tail(words), limit)

RECURSIVE JoinLines(_)
\* "\n".join(formatted_lines)
JoinLines(lines) ==
    IF Len(lines) = 0 THEN <<>>
    ELSE IF Len(lines) = 1 THEN lines[1]
    ELSE lines[1] \o NL \o JoinLines(Tail(lines))

\* _format_transcription_output(transcription_data, line_char_limit)
FormatOutput(transcription_data, line_char_limit) ==
    IF Len(transcription_data.word_timestamps) = 0 THEN transcription_data.text
    ELSE LET acc == PackWords(Packing(<<>>, <<>>, <<>>),
                              transcription_data.word_timestamps, line_char_limit)
         IN  JoinLines(IF Len(acc.content) > 0
                       THEN Append(acc.lines, acc.prefix \o acc.content)
                       ELSE acc.lines)

\* the dict the tool returns
Response(message, transcription) ==
    [kind |-> "response", message |-> message, transcription |-> transcription]

\* server.py:138-160 (api/main.py:175-196 differs in one message only)
ToolResponse(transcription_result, include_timestamps, line_character_limit) ==
    IF transcription_result.kind = "str"
    THEN Response("Transcription successful (text only).", transcription_result.text)
    ELSE IF include_timestamps /\ Len(transcription_result.word_timestamps) > 0
    THEN Response("Transcription successful with formatted timestamps.",
                  FormatOutput(transcription_result, line_character_limit))
    ELSE IF include_timestamps
    THEN Response("Transcription successful (text only; detailed timestamps not available or empty for formatting).",
                  transcription_result.text)
    ELSE Response("Transcription successful (text only).", transcription_result.text)

\* the formatter's return value, held as a record
Formatted(text) == [kind |-> "formatted", text |-> text]

(***************************************************************************)
(* Inputs.                                                                 *)
(***************************************************************************)
AudioA == FilePath("in", "a", "wav")
AudioB == FilePath("in", "b", "wav")

\* the range the tool and the endpoint declare for segment_length_minutes
\* (server.py:58, api/main.py:134: ge=1, le=24)
MinSegmentLengthMinutes == 1
MaxSegmentLengthMinutes == 24

\* segment lengths in the declared range, and the nearest values outside it
SegmentLengths ==
    (1..MaxSegmentMinutes)
    \cup {MinSegmentLengthMinutes - 1, MaxSegmentLengthMinutes + 1}

\* request objects that carry the three attributes the driver reads
Inputs(paths) ==
    {InputData(p, ts, m) : p \in paths, ts \in BOOLEAN, m \in SegmentLengths}

\* what a caller of the tool or the endpoint may give: the declared range is
\* enforced on the tool's arguments before the tool body runs
ToolSegmentLengths ==
    {m \in 1..MaxSegmentMinutes :
        MinSegmentLengthMinutes <= m /\ m <= MaxSegmentLengthMinutes}

\* len(audio): 0, and whole minutes with and without one millisecond more
Durations == {m * MsPerMinute + e : m \in 0..MaxAudioMinutes, e \in {0, 1}}

GoodWord(w, start, end) == Entry(VStr(w), VNum(start), VNum(end))
GoodChar(c, start, end) == Entry(VList(c), VNum(start), VNum(end))
BadTime == VStr(<<"b", "a", "d">>)

OutEmptyList == <<>>
OutNone == <<NoneElem>>
OutBareString == <<StrElem(<<"a">>)>>
OutNoTimestamps == <<Hyp(<<"x">>, NoTimestamp)>>
OutSilent == <<Hyp(<<>>, DictTimestamp(AList(<<>>), AList(<<>>), AList(<<>>)))>>
OutSegments ==
    <<Hyp(<<"x">>,
          DictTimestamp(
              AList(<<GoodWord(<<"b">>, 100, 200),
                      Entry(VStr(<<"c">>), VNum(300), VNone)>>),
              AList(<<GoodChar(<<"b">>, 100, 200), NonDictEntry>>),
              AList(<<GoodWord(<<"b">>, 100, 200)>>)))>>
OutWordsOnly ==
    <<Hyp(<<"x">>,
          DictTimestamp(AList(<<GoodWord(<<"c">>, 0, 500)>>), NoList, NoList))>>
OutBadTime ==
    <<Hyp(<<"x">>,
          DictTimestamp(AList(<<Entry(VStr(<<"c">>), BadTime, VNum(500))>>),
                        NoList, NoList))>>

\* what model.transcribe returns in the driver runs
ModelOutputs ==
    {OutEmptyList, OutNone, OutBareString, OutNoTimestamps, OutSilent,
     OutSegments, OutWordsOnly, OutBadTime}

\* raw entries of a word or segment list, well-formed and not
TextEntries ==
    {NonDictEntry,
     GoodWord(<<"a">>, 100, 200), GoodWord(<<"b">>, 300, 400),
     Entry(VNone, VNum(100), VNum(200)),
     Entry(VStr(<<"a">>), VNone, VNum(200)),
     Entry(VStr(<<"a">>), VNum(100), VNone),
     Entry(VStr(<<"a">>), BadTime, VNum(200)),
     Entry(VStr(<<"a">>), VNum(100), BadTime),
     Entry(VList(<<"a">>), VNum(100), VNum(200))}

\* raw entries of a char list
CharEntries ==
    {NonDictEntry,
     GoodChar(<<"a">>, 100, 200), GoodChar(<<"b">>, 300, 400),
     Entry(VNone, VNum(100), VNum(200)),
     Entry(VEmptyList, VNum(100), VNum(200)),
     Entry(VListNone, VNum(100), VNum(200)),
     Entry(VStr(<<"a">>), VNum(100), VNum(200)),
     Entry(VList(<<"a">>), VNone, VNum(200)),
     Entry(VList(<<"a">>), BadTime, VNum(200))}

SeqsUpTo(S, n) == UNION {[1..k -> S] : k \in 0..n}

Lists(S) == {NoList} \cup {AList(items) : items \in SeqsUpTo(S, MaxItems)}

FewTextLists ==
    {NoList, AList(<<GoodWord(<<"c">>, 0, 500)>>),
     AList(<<Entry(VStr(<<"c">>), VNum(0), VNone)>>)}
FewCharLists == {NoList, AList(<<GoodChar(<<"c">>, 0, 500)>>)}

\* the timestamp attribute of a hypothesis: one list varies widely at a time
Timestamps ==
    {NoTimestamp, OtherTimestamp,
     DictTimestamp(NoList, NoList, NoList),
     DictTimestamp(AList(<<>>), AList(<<>>), AList(<<>>))}
    \cup {DictTimestamp(w, c, s) : w \in Lists(TextEntries), c \in FewCharLists,
                                   s \in FewTextLists}
    \cup {DictTimestamp(w, c, s) : w \in FewTextLists, c \in Lists(CharEntries),
                                   s \in FewTextLists}
    \cup {DictTimestamp(w, c, s) : w \in FewTextLists, c \in FewCharLists,
                                   s \in Lists(TextEntries)}

\* nemo_output of a direct reconciler call
RawOutputs ==
    {OutEmptyList, OutNone, <<StrElem(<<>>)>>, OutBareString}
    \cup {<<Hyp(<<"x">>, ts)>> : ts \in Timestamps}

Offsets == {k * MsPerMinute : k \in 0..MaxOffsetMinutes}

ReconcilerCall(nemo_output, include_timestamps, offset) ==
    [nemo_output |-> nemo_output, include_timestamps |-> include_timestamps,
     offset |-> offset]

NoCall == ReconcilerCall(<<>>, FALSE, 0)

(***************************************************************************)
(* Specifications.                                                         *)
(***************************************************************************)
InitDriver ==
    /\ st = [r \in Reqs |-> Idle]
    /\ disk = {}
    /\ ASR_MODEL = 0
    /\ loads = 0

(***************************************************************************)
(* The transcribe_audio tool (server.py:52-167).                           *)
(***************************************************************************)
\* the line_character_limit a call gets when it gives none (server.py:57)
DefaultLineCharacterLimit == 80

\* files the caller's paths may name; a path without directory is relative
RelativeA == FilePath("", "a", "wav")
OtherDirA == FilePath("in2", "a", "mp3")
MissingA == FilePath("in", "missing", "wav")
SourceFiles == {AudioA, OtherDirA, RelativeA}

\* audio_file_path: the empty string, a relative path, a path to no file,
\* and two files of the same base name in different directories
ToolPaths == {NoPath, RelativeA, MissingA, AudioA, OtherDirA}

OutputFormats == {"wav", "flac"}

\* line 86: `not audio_file_path.strip()`
IsBlankPath(path) == path.dir = "" /\ path.stem = "" /\ path.ext = ""

IsAbsAlways(path) == TRUE

\* os.path.isabs
IsAbs(path) == path.dir # ""

\* os.path.exists
PathExists(d, path) == path \in SourceFiles \/ Exists(d, path)

\* audio_converter.py:71-73: <output_dir>/<base name of the input>.<format>
ConvertedPath(audio_path, output_format) ==
    FilePath(TEMP_AUDIO_DIR, audio_path.stem, output_format)

CleanupNeededNever(converted_audio_path) == FALSE

\* line 166: `if converted_audio_path:`
CleanupNeeded(converted_audio_path) == converted_audio_path # NoPath

\* the call ends with a ToolError
ToolRaises(s, error) ==
    [s EXCEPT !.tool.pc = "returned", !.tool.outcome = "ToolError", !.tool.error = error]

\* the driver's return value as the response code and the formatter read it
AsFormatData(result) ==
    FormatData(result.kind, result.text,
               [k \in 1..Len(result.word_timestamps) |->
                   FormatWord(result.word_timestamps[k].text,
                              VNum(result.word_timestamps[k].start_time))])

\* a client calls the tool (line 84)
ToolBegin(r, paths, formats) ==
    /\ st[r].pc = "idle"
    /\ st[r].tool.pc = "none"
    /\ \E path \in paths, format \in formats :
           Set(r, [st[r] EXCEPT !.tool.pc = "check_path",
                                !.tool.audio_file_path = path,
                                !.tool.output_format = format])
    /\ UNCHANGED <<disk, ASR_MODEL, loads, rc_in, rc_out>>

\* lines 86-101
ToolCheckPath(r) ==
    /\ st[r].tool.pc = "check_path"
    /\ LET path == st[r].tool.audio_file_path
       IN  Set(r, IF IsBlankPath(path) THEN ToolRaises(st[r], "empty")
                  ELSE IF ~IsAbs(path) THEN ToolRaises(st[r], "relative")
                  ELSE IF ~PathExists(disk, path) THEN ToolRaises(st[r], "not_found")
                  ELSE [st[r] EXCEPT !.tool.pc = "convert"])
    /\ UNCHANGED <<disk, ASR_MODEL, loads, rc_in, rc_out>>

\* lines 103-115 with convert_to_audio: the converted file is written and its
\* path returned; or the input cannot be decoded and None is returned; or the
\* export raises after it has created the file, and None is returned.  On None
\* the tool raises (lines 109-112, 162-164) and cleans up nothing (line 166).
ToolConvert(r) ==
    /\ st[r].tool.pc = "convert"
    /\ LET out == ConvertedPath(st[r].tool.audio_file_path, st[r].tool.output_format)
       IN  \/ /\ disk' = Written(disk, out, r)
              /\ Set(r, [st[r] EXCEPT !.tool.pc = "converted",
                                      !.tool.converted_audio_path = out,
                                      !.tool.wrote = out])
           \/ /\ disk' = disk
              /\ Set(r, ToolRaises(st[r], "conversion"))
           \/ /\ disk' = Written(disk, out, r)
              /\ Set(r, ToolRaises([st[r] EXCEPT !.tool.wrote = out], "conversion"))
    /\ UNCHANGED <<ASR_MODEL, loads, rc_in, rc_out>>

\* lines 117-124: the request object is built and the driver entered
ToolStartDriver(r, minutes) ==
    /\ st[r].tool.pc = "converted"
    /\ ToolCall(r, {st[r].tool.converted_audio_path}, minutes)

\* lines 125-167: the driver has returned or raised; the response is built or
\* the exception turned into a ToolError, and the finally clause runs
\* cleanup_temp_files on the converted path, whose failure is only logged
ToolFinally(r) ==
    /\ st[r].tool.pc = "converted"
    /\ st[r].pc = "done"
    /\ LET s == st[r]
           path == s.tool.converted_audio_path
           ended == IF s.outcome.kind = "raise"
                    THEN ToolRaises(s, s.outcome.error)
                    ELSE [s EXCEPT !.tool.pc = "returned", !.tool.outcome = "response",
                                   !.tool.response =
                                       ToolResponse(AsFormatData(s.outcome),
                                                    s.input_data.include_timestamps,
                                                    DefaultLineCharacterLimit)]
       IN  IF ~CleanupNeeded(path)
           THEN disk' = disk /\ Set(r, ended)
           ELSE \/ /\ Exists(disk, path)
                   /\ disk' = Removed(disk, {path})
                   /\ Set(r, [ended EXCEPT !.tool.cleanup = "removed"])
                \/ /\ Exists(disk, path)
                   /\ disk' = disk
                   /\ Set(r, [ended EXCEPT !.tool.cleanup = "failed"])
                \/ /\ ~Exists(disk, path)
                   /\ disk' = disk
                   /\ Set(r, [ended EXCEPT !.tool.cleanup = "missing"])
    /\ UNCHANGED <<ASR_MODEL, loads, rc_in, rc_out>>

\* one request at a time, any audio length, every kind of model output
Init ==
    /\ InitDriver
    /\ rc_in = NoCall
    /\ rc_out = Pending

Next ==
    \/ Start("r1", Inputs({AudioA}))
    \/ ToolCall("r1", {AudioA}, ToolSegmentLengths)
    \/ LoadCheck("r1")
    \/ LoadInit("r1")
    \/ LoadReturn("r1")
    \/ ReadInput("r1")
    \/ LoadAudio("r1", Durations)
    \/ BeginModelCall("r1")
    \/ TranscribeDirect("r1", ModelOutputs)
    \/ Export("r1")
    \/ ExportFailureCleanup("r1")
    \/ TranscribeSegment("r1", ModelOutputs)
    \/ CleanupStep("r1")
    \/ Finish("r1")

Spec == Init /\ [][Next]_vars

\* two requests in flight in one event loop, sharing the temp directory
ConcInputs == {InputData(p, FALSE, 1) : p \in {AudioA, AudioB}}
ConcDurations == {MsPerMinute, MsPerMinute + 1}
ConcOutputs == {OutBareString}

\* one step of the event loop: it resumes a coroutine that is ready, and none
\* is resumed while the thread is held by a blocking call of another
NextConc ==
    \E r \in Reqs :
        /\ Runnable(r)
        /\ \/ Start(r, ConcInputs)
           \/ LoadCheck(r)
           \/ LoadInit(r)
           \/ LoadReturn(r)
           \/ ReadInput(r)
           \/ LoadAudio(r, ConcDurations)
           \/ BeginModelCall(r)
           \/ TranscribeDirect(r, ConcOutputs)
           \/ Export(r)
           \/ ExportFailureCleanup(r)
           \/ TranscribeSegment(r, ConcOutputs)
           \/ CleanupStep(r)
           \/ Finish(r)

SpecConc == Init /\ [][NextConc]_vars

\* load_model on its own: callers that call it, concurrently and repeatedly
LoadInputs == {InputData(AudioA, FALSE, 1)}

NextLoad ==
    \E r \in Reqs :
        \/ Start(r, LoadInputs)
        \/ LoadCheck(r)
        \/ LoadInit(r)
        \/ LoadReturn(r)
        \/ LoadAgain(r)

SpecLoad == Init /\ [][NextLoad]_vars

\* tool calls in flight in one event loop, sharing the temp directory
NextTool ==
    \E r \in Reqs :
        \/ ToolBegin(r, ToolPaths, OutputFormats)
        \/ ToolCheckPath(r)
        \/ ToolConvert(r)
        \/ ToolStartDriver(r, {MinSegmentLengthMinutes})
        \/ LoadCheck(r)
        \/ LoadInit(r)
        \/ LoadReturn(r)
        \/ ReadInput(r)
        \/ ToolFinally(r)

SpecTool == Init /\ [][NextTool]_vars

\* the range the tool and the endpoint declare for line_character_limit
\* (server.py:57, api/main.py:133: ge=40, le=200)
MinLineCharacterLimit == 40
MaxLineCharacterLimit == 200

Hello == <<"H", "e", "l", "l", "o">>
World == <<"w", "o", "r", "l", "d", ".">>

\* word entries: WordTimestamp objects, blank words, dict entries without
\* start time
FormatEntries ==
    {FormatWord(Hello, VNum(100)), FormatWord(World, VNum(600)),
     FormatWord(<<"a">>, VNum(100)), FormatWord(<<"b">>, VNum(600)),
     FormatWord(<<"c">>, VNum(12300)),
     FormatWord(<<>>, VNum(100)), FormatWord(<<" ">>, VNum(600)),
     FormatWord(<<"a">>, VNone), FormatWord(<<" ">>, VNone)}

FormatInputs ==
    {FormatData("str", <<"x">>, <<>>)}
    \cup {FormatData("result", <<"x">>, words) : words \in SeqsUpTo(FormatEntries, MaxWords)}

\* line_char_limit: the default, and limits that make short lines wrap
LineLimits == {10, 11, 80}

FormatCall(transcription_data, include_timestamps, line_char_limit) ==
    [transcription_data |-> transcription_data, include_timestamps |-> include_timestamps,
     line_char_limit |-> line_char_limit]

\* the formatter, and the tool's response code, called directly
InitFormat ==
    /\ InitDriver
    /\ rc_in \in {FormatCall(data, ts, limit) :
                      data \in FormatInputs, ts \in BOOLEAN, limit \in LineLimits}
    /\ rc_out = Pending

\* _format_transcription_output on a TranscriptionResult
Format ==
    /\ rc_out = Pending
    /\ rc_in.transcription_data.kind = "result"
    /\ rc_out' = Formatted(FormatOutput(rc_in.transcription_data, rc_in.line_char_limit))
    /\ UNCHANGED <<st, disk, ASR_MODEL, loads, rc_in>>

\* the tool builds its response from what transcribe_audio_file returned
Respond ==
    /\ rc_out = Pending
    /\ MinLineCharacterLimit <= rc_in.line_char_limit
    /\ rc_in.line_char_limit <= MaxLineCharacterLimit
    /\ rc_out' = ToolResponse(rc_in.transcription_data, rc_in.include_timestamps,
                              rc_in.line_char_limit)
    /\ UNCHANGED <<st, disk, ASR_MODEL, loads, rc_in>>

NextFormat == Format \/ Respond

SpecFormat == InitFormat /\ [][NextFormat]_vars

\* _process_transcription_output called directly on any raw output
InitReconcile ==
    /\ InitDriver
    /\ rc_in \in {ReconcilerCall(out, ts, off) :
                      out \in RawOutputs, ts \in BOOLEAN, off \in Offsets}
    /\ rc_out = Pending

Reconcile ==
    /\ rc_out = Pending
    /\ rc_out' = ProcessOutput(rc_in.nemo_output, rc_in.include_timestamps, rc_in.offset)
    /\ UNCHANGED <<st, disk, ASR_MODEL, loads, rc_in>>

NextReconcile == Reconcile

SpecReconcile == InitReconcile /\ [][NextReconcile]_vars

(***************************************************************************)
(* Properties.                                                             *)
(***************************************************************************)
Range(seq) == {seq[k] : k \in 1..Len(seq)}
Min(a, b) == IF a < b THEN a ELSE b

Done(r) == st[r].pc = "done"
InFlight(r) == st[r].pc \notin {"idle", "done"}
Returned(r) == Done(r) /\ st[r].outcome.kind \in {"str", "result"}

\* the request has decoded its audio and chosen between one call and chunks
PastDecode(r) ==
    /\ st[r].pc \in {"single", "export", "export_failed", "transcribe", "cleanup", "done"}
    /\ st[r].outcome.error \notin {"ModelLoadError", "AttributeError", "AudioDecodeError"}

\* the files on disk that request r wrote under one of its chunk paths
OwnChunkFiles(r) ==
    {f \in disk : f.writer = r /\ f.path \in Range(st[r].temp_segment_paths)}

\* C1: after a call of transcribe_audio_file has ended, by return or by raise,
\* none of the chunk files it created is on disk.
C1_NoChunkFilesAfterCall ==
    \A r \in Reqs : Done(r) => OwnChunkFiles(r) = {}

\* C2: two requests in flight at the same time never use the same chunk path.
C2_DistinctChunkPaths ==
    \A r1, r2 \in Reqs :
        (r1 # r2 /\ InFlight(r1) /\ InFlight(r2))
            => Range(st[r1].temp_segment_paths) \cap Range(st[r2].temp_segment_paths) = {}

\* the least n with n * b >= a
CeilDiv(a, b) == CHOOSE n \in 0..a : n * b >= a /\ (n = 0 \/ (n - 1) * b < a)

\* C3: the chunks processed are ceil(duration_ms / segment_length_ms) non-empty
\* intervals [i*L, min((i+1)*L, duration_ms)), contiguous from 0 to duration_ms;
\* audio that fits one segment is one chunk, the whole file.
C3_ChunkPlanCoversAudio ==
    \A r \in Reqs :
        LET s == st[r]
            L == s.segment_length_ms
            d == s.duration_ms
            n == Len(s.plan)
        IN  /\ \A k \in 1..n :
                  /\ s.plan[k][1] = (k - 1) * L
                  /\ s.plan[k][2] = Min(k * L, d)
                  /\ s.plan[k][1] < s.plan[k][2]
                  /\ k = 1 => s.plan[k][1] = 0
                  /\ k > 1 => s.plan[k][1] = s.plan[k - 1][2]
            /\ (Returned(r) /\ d > L) =>
                  /\ n = CeilDiv(d, L)
                  /\ s.plan[n][2] = d
                  /\ Len(s.calls) = n
            /\ (Returned(r) /\ d > 0 /\ d <= L) =>
                  /\ CeilDiv(d, L) = 1
                  /\ Len(s.calls) = 1
                  /\ s.calls[1].path = s.input_data.audio_path

\* a returned run of three chunks whose last chunk is shorter than the others
C3_Witness ==
    \E r \in Reqs :
        /\ Returned(r)
        /\ Len(st[r].plan) = 3
        /\ st[r].plan[3][2] - st[r].plan[3][1] < st[r].segment_length_ms
        /\ st[r].plan[3][2] = st[r].duration_ms

RECURSIVE SumDurations(_, _)
\* the total length of the first k chunks of a plan
SumDurations(plan, k) ==
    IF k = 0 THEN 0 ELSE SumDurations(plan, k - 1) + (plan[k][2] - plan[k][1])

\* C4: in a multi-chunk run the offset passed for chunk i is the sum of the
\* actual durations of chunks 0..i-1: 0 for chunk 0, and non-decreasing.
C4_OffsetIsSumOfPriorDurations ==
    \A r \in Reqs :
        LET s == st[r]
        IN  s.num_segments > 0 =>
                \A k \in 1..Len(s.calls) :
                    /\ s.calls[k].offset = SumDurations(s.plan, k - 1)
                    /\ k = 1 => s.calls[k].offset = 0
                    /\ k > 1 => s.calls[k - 1].offset <= s.calls[k].offset

\* a third chunk has been transcribed, at an offset of two segment lengths
C4_Witness ==
    \E r \in Reqs :
        /\ st[r].num_segments > 0
        /\ Len(st[r].calls) >= 3
        /\ st[r].calls[3].offset = 2 * st[r].segment_length_ms

\* the export of some chunk of r's run has raised
ExportFailed(r) == Len(st[r].plan) > Len(st[r].exports)

\* C5: when the export of chunk i fails, the request ends with the
\* segment-export error, every chunk file of the run is gone from disk, no
\* model call was made for chunk i or later, and nothing is returned.
C5_ExportFailureAborts ==
    \A r \in Reqs :
        (Done(r) /\ ExportFailed(r)) =>
            /\ st[r].outcome = Raised("SegmentExportError")
            /\ \A p \in Range(st[r].temp_segment_paths) : ~Exists(disk, p)
            /\ Len(st[r].calls) = st[r].failed_at

\* an output that is an empty list or has a null first element
EmptyOrNull(out) == Len(out) = 0 \/ out[1].kind = "none"

\* C6: once a model call of a request has raised, or returned an empty list or
\* a null first element, the request has ended with that error: that call is
\* its last, no later chunk has been exported, and nothing is returned.
C6_ModelFailureAborts ==
    \A r \in Reqs :
        LET s == st[r]
            raised == Len(s.outputs) < Len(s.calls)
            empty == \E k \in 1..Len(s.outputs) : EmptyOrNull(s.outputs[k])
        IN  /\ raised => (Done(r) /\ s.outcome = Raised("ModelError"))
            /\ empty =>
                  /\ Done(r)
                  /\ s.outcome = Raised("EmptyResult")
                  /\ EmptyOrNull(s.outputs[Len(s.outputs)])
                  /\ \A k \in 1..(Len(s.outputs) - 1) : ~EmptyOrNull(s.outputs[k])
            /\ (raised \/ empty) =>
                  (s.num_segments > 0 =>
                      /\ Len(s.exports) = Len(s.calls)
                      /\ Len(s.plan) = Len(s.calls))

\* a run of three chunks ended by a null result for its second chunk
C6_Witness ==
    \E r \in Reqs :
        /\ Done(r)
        /\ st[r].num_segments = 3
        /\ Len(st[r].outputs) = 2
        /\ st[r].outputs[2] = OutNone
        /\ st[r].outcome = Raised("EmptyResult")

\* C7: audio no longer than one segment is never exported: no temp file, one
\* model call on the original path with the requested flag, and the return
\* value is the reconciler's for that call at offset 0.
C7_NoSplitIsOneDirectCall ==
    \A r \in Reqs :
        LET s == st[r]
        IN  (PastDecode(r) /\ s.duration_ms <= s.segment_length_ms) =>
                /\ s.exports = <<>>
                /\ s.temp_segment_paths = <<>>
                /\ \A f \in disk : f.writer # r
                /\ Done(r) =>
                      /\ s.calls = <<Call(s.input_data.audio_path,
                                          s.input_data.include_timestamps, 0)>>
                      /\ \/ s.outputs = <<>> /\ s.outcome = Raised("ModelError")
                         \/ /\ Len(s.outputs) = 1
                            /\ s.outcome = ProcessOutput(s.outputs[1],
                                               s.input_data.include_timestamps, 0)

\* audio exactly one segment long has been transcribed with timestamps
C7_Witness ==
    \E r \in Reqs :
        /\ Done(r)
        /\ st[r].duration_ms = st[r].segment_length_ms
        /\ st[r].duration_ms > 0
        /\ st[r].outcome.kind = "result"
        /\ Len(st[r].outcome.segment_timestamps) > 0

\* C8: in every TranscriptionResult the driver returns when timestamps are
\* requested, text is the segment texts joined by single spaces if there are
\* segments, else the words joined by single spaces if there are words.
C8_TextConsistentWithTimestamps ==
    \A r \in Reqs :
        LET res == st[r].outcome
        IN  (Done(r) /\ st[r].input_data.include_timestamps /\ res.kind = "result") =>
                /\ Len(res.segment_timestamps) > 0 =>
                       res.text = Join(Texts(res.segment_timestamps))
                /\ (Len(res.segment_timestamps) = 0 /\ Len(res.word_timestamps) > 0) =>
                       res.text = Join(Texts(res.word_timestamps))

\* a word or segment entry with a str text and numeric start and end
WellFormedText(e) ==
    e.shape = "dict" /\ e.txt.t = "str" /\ e.start.t = "num" /\ e.end.t = "num"
\* a char entry: the text is a list whose first element is the character
WellFormedChar(e) ==
    e.shape = "dict" /\ e.txt.t = "list" /\ e.start.t = "num" /\ e.end.t = "num"

EntriesOf(lst) == IF lst.kind = "list" THEN lst.items ELSE <<>>
Shifted(entries, offset) ==
    [k \in 1..Len(entries) |->
        Stamp(entries[k].txt.s, entries[k].start.n + offset, entries[k].end.n + offset)]
AcceptedText(lst, offset) == Shifted(SelectSeq(EntriesOf(lst), WellFormedText), offset)
AcceptedChar(lst, offset) == Shifted(SelectSeq(EntriesOf(lst), WellFormedChar), offset)
Malformed(lst, WellFormed(_)) == {k \in 1..Len(EntriesOf(lst)) : ~WellFormed(EntriesOf(lst)[k])}

\* a direct reconciler call on a hypothesis object, timestamps requested
ReconciledHyp ==
    /\ rc_out # Pending
    /\ rc_in.include_timestamps
    /\ Len(rc_in.nemo_output) > 0
    /\ rc_in.nemo_output[1].kind = "hyp"

\* C9: with timestamps requested, the reconciler's text is the joined accepted
\* segment texts if any segment entry was accepted, else the joined accepted
\* words if any word entry was accepted, else the model's verbatim text.
C9_TextReconstruction ==
    (ReconciledHyp /\ rc_out.kind = "result") =>
        LET ts == rc_in.nemo_output[1].timestamp
            segs == AcceptedText(ts.segment, rc_in.offset)
            words == AcceptedText(ts.word, rc_in.offset)
        IN  /\ rc_out.segment_timestamps = segs
            /\ rc_out.word_timestamps = words
            /\ rc_out.text = IF Len(segs) > 0 THEN Join(Texts(segs))
                             ELSE IF Len(words) > 0 THEN Join(Texts(words))
                             ELSE rc_in.nemo_output[1].text

\* segments and words were both accepted and spell different texts
C9_Witness ==
    /\ ReconciledHyp
    /\ rc_out.kind = "result"
    /\ Len(rc_out.segment_timestamps) = 2
    /\ Len(rc_out.word_timestamps) > 0
    /\ Join(Texts(rc_out.segment_timestamps)) # Join(Texts(rc_out.word_timestamps))
    /\ rc_out.text = Join(Texts(rc_out.segment_timestamps))

\* C10: in the word, segment and char lists alike the well-formed entries are
\* kept in order with the offset added, every malformed entry is skipped with
\* a warning, and a malformed entry never makes the reconciler raise.
C10_MalformedEntriesSkipped ==
    ReconciledHyp =>
        LET ts == rc_in.nemo_output[1].timestamp
        IN  /\ rc_out.kind = "result"
            /\ rc_out.word_timestamps = AcceptedText(ts.word, rc_in.offset)
            /\ rc_out.segment_timestamps = AcceptedText(ts.segment, rc_in.offset)
            /\ rc_out.char_timestamps = AcceptedChar(ts.char, rc_in.offset)
            /\ Cardinality({k \in 1..Len(rc_out.warnings) :
                               rc_out.warnings[k][1] \in {"word", "segment", "char"}})
                 = Cardinality(Malformed(ts.word, WellFormedText))
                   + Cardinality(Malformed(ts.segment, WellFormedText))
                   + Cardinality(Malformed(ts.char, WellFormedChar))

\* the first element of a model output (a null element when the list is empty)
FirstOf(out) == IF Len(out) > 0 THEN out[1] ELSE NoneElem

\* the accepted entries of chunk k under `key`, with their chunk-local times
LocalEntries(outputs, key, k) ==
    IF key = "char" THEN AcceptedChar(FirstOf(outputs[k]).timestamp[key], 0)
    ELSE AcceptedText(FirstOf(outputs[k]).timestamp[key], 0)

\* the same entries, shifted by the total duration of the chunks before chunk k
ShiftedEntries(outputs, plan, key, k) ==
    LET local == LocalEntries(outputs, key, k)
    IN  [m \in 1..Len(local) |->
            Stamp(local[m].text,
                  local[m].start_time + SumDurations(plan, k - 1),
                  local[m].end_time + SumDurations(plan, k - 1))]

RECURSIVE ShiftedChunks(_, _, _, _)
\* the shifted entries of the first k chunks, in chunk order
ShiftedChunks(outputs, plan, key, k) ==
    IF k = 0 THEN <<>>
    ELSE ShiftedChunks(outputs, plan, key, k - 1) \o ShiftedEntries(outputs, plan, key, k)

\* every chunk-local time of chunk k under `key` lies within [0, chunk duration]
LocalTimesInChunk(outputs, plan, key, k) ==
    \A e \in Range(LocalEntries(outputs, key, k)) :
        /\ 0 <= e.start_time
        /\ e.start_time <= e.end_time
        /\ e.end_time <= plan[k][2] - plan[k][1]

\* a multi-chunk run with timestamps has returned its aggregated result
AggregatedResult(r) ==
    /\ Returned(r)
    /\ st[r].num_segments > 0
    /\ st[r].input_data.include_timestamps

TimestampKeys == {"word", "segment", "char"}

ResultList(res, key) ==
    IF key = "word" THEN res.word_timestamps
    ELSE IF key = "segment" THEN res.segment_timestamps
    ELSE res.char_timestamps

\* C11: in the aggregated result of a multi-chunk run each list is the chunks'
\* accepted entries in chunk order, the entries of chunk i shifted by the total
\* duration of chunks 0..i-1; when chunk-local times lie within [0, chunk
\* duration] the entries of chunk i lie within chunk i's interval of the
\* original timeline, so entries of an earlier chunk end before those of a
\* later chunk start.
C11_TimestampsOnOriginalTimeline ==
    \A r \in Reqs :
        AggregatedResult(r) =>
            LET s == st[r]
                n == s.num_segments
            IN  \A key \in TimestampKeys :
                    /\ ResultList(s.outcome, key) = ShiftedChunks(s.outputs, s.plan, key, n)
                    /\ \A k \in 1..n :
                          LocalTimesInChunk(s.outputs, s.plan, key, k) =>
                              \A e \in Range(ShiftedEntries(s.outputs, s.plan, key, k)) :
                                  /\ e.start_time >= s.plan[k][1]
                                  /\ e.end_time <= s.plan[k][2]
                    /\ \A k1, k2 \in 1..n :
                          (k1 < k2 /\ LocalTimesInChunk(s.outputs, s.plan, key, k1)
                                  /\ LocalTimesInChunk(s.outputs, s.plan, key, k2)) =>
                              \A a \in Range(ShiftedEntries(s.outputs, s.plan, key, k1)),
                                 b \in Range(ShiftedEntries(s.outputs, s.plan, key, k2)) :
                                  a.end_time <= b.start_time

\* two chunks of one minute gave different word entries, and the second
\* chunk's entry lies in the second minute of the aggregated result
C11_Witness ==
    \E r \in Reqs :
        /\ AggregatedResult(r)
        /\ st[r].segment_length_ms = MsPerMinute
        /\ Len(st[r].outcome.word_timestamps) >= 2
        /\ st[r].outcome.word_timestamps[1].end_time <= MsPerMinute
        /\ \E k \in 2..Len(st[r].outcome.word_timestamps) :
               /\ st[r].outcome.word_timestamps[k].start_time >= MsPerMinute
               /\ st[r].outcome.word_timestamps[k].text
                      # st[r].outcome.word_timestamps[1].text
        /\ Len(st[r].outcome.char_timestamps) >= 1

\* C12: at most one chunk file of a request is on disk at any time: a chunk's
\* file is deleted before the next chunk is exported.
C12_AtMostOneChunkFile ==
    \A r \in Reqs : Cardinality(OwnChunkFiles(r)) <= 1

\* C13: a request in which a deletion of a chunk file has failed ends as it
\* would have ended with the deletion succeeding: with the segment-export
\* error after an export failure, with its result otherwise, and never with
\* the error of the deletion.
C13_DeletionFailureNotFatal ==
    \A r \in Reqs :
        (Done(r) /\ st[r].remove_failed > 0) =>
            /\ st[r].outcome.error # "OSError"
            /\ ExportFailed(r) => st[r].outcome = Raised("SegmentExportError")
            /\ ~ExportFailed(r) => Returned(r)

\* the requests inside model.transcribe
InModel == {r \in Reqs : st[r].in_model}

\* C14: at most one model.transcribe call is in progress at any time, and a
\* request that is inside the call for chunk i has had the calls for all its
\* earlier chunks return.
C14_ModelCallsNeverOverlap ==
    /\ Cardinality(InModel) <= 1
    /\ \A r \in InModel :
          /\ Len(st[r].calls) = Len(st[r].outputs)
          /\ st[r].num_segments > 0 => Len(st[r].calls) = st[r].i

\* one request is inside model.transcribe for its second chunk while the
\* other has exported a chunk and is ready to call the model
C14_Witness ==
    \E r, q \in Reqs :
        /\ r # q
        /\ st[r].in_model /\ st[r].i = 1
        /\ st[q].pc = "transcribe" /\ ~st[q].in_model

\* C15 as stated: once a multi-chunk run has ended, a report (c, num_segments)
\* has been emitted for every number c of chunks it completed; the completed
\* values reported increase, and a successful run's last report is
\* (num_segments, num_segments).
C15_ReportAfterEachChunk ==
    \A r \in Reqs :
        LET s == st[r]
            n == s.num_segments
        IN  (Done(r) /\ n > 0) =>
                /\ \A c \in 1..s.i : <<c, n>> \in Range(s.progress)
                /\ \A k \in 2..Len(s.progress) : s.progress[k - 1][1] < s.progress[k][1]
                /\ Returned(r) => s.progress[Len(s.progress)] = <<n, n>>

\* C15, corrected: the k-th report of a multi-chunk run is (k-1, num_segments);
\* the report (i, num_segments) for i < num_segments is emitted once chunk i
\* has been exported and before it is transcribed, so a report never counts
\* more chunks than have completed and a run that ends when the export of a
\* chunk fails has no report for the chunk completed before it; a successful
\* run reports 0, 1, ..., num_segments.
C15_ProgressCountsCompletedChunks ==
    \A r \in Reqs :
        LET s == st[r]
            n == s.num_segments
        IN  n > 0 =>
                /\ \A k \in 1..Len(s.progress) : s.progress[k] = <<k - 1, n>>
                /\ Len(s.progress) = Len(s.exports) + (IF s.i = n THEN 1 ELSE 0)
                /\ \A k \in 1..Len(s.progress) : s.progress[k][1] <= s.i
                /\ Returned(r) =>
                      /\ Len(s.progress) = n + 1
                      /\ s.progress[n + 1] = <<n, n>>

\* a run of three chunks has returned after four reports
C15_Witness ==
    \E r \in Reqs :
        /\ Returned(r)
        /\ st[r].num_segments = 3
        /\ st[r].progress = <<<<0, 3>>, <<1, 3>>, <<2, 3>>, <<3, 3>>>>

\* the load_model calls made so far, as <<caller, number of the call>>
LoadCalls == UNION {{<<r, k>> : k \in 1..Len(st[r].load_calls)} : r \in Reqs}
TheCall(c) == st[c[1]].load_calls[c[2]]

\* C16: a load_model call that finds the model loaded does not run the
\* initialization, and returns the handle it found.
C16_LaterCallsReturnSameHandle ==
    \A c \in LoadCalls :
        TheCall(c).seen # 0 =>
            /\ TheCall(c).init = "skipped"
            /\ TheCall(c).returned \in {0, TheCall(c).seen}

\* C17: a failed initialization leaves the shared handle as it was, unset if
\* no initialization has succeeded, and gives its caller the error and no
\* handle; the caller's next call, finding the handle unset, goes to the
\* initialization again; the handle is never anything but unset or a model
\* that an initialization produced.
C17_FailedInitLeavesHandleUnset ==
    /\ ASR_MODEL \in 0..loads
    /\ loads = 0 => ASR_MODEL = 0
    /\ \A c \in LoadCalls :
          TheCall(c).init = "failed" =>
              LET r == c[1]
                  k == c[2]
              IN  /\ TheCall(c).after = TheCall(c).before
                  /\ TheCall(c).returned = 0
                  /\ k = Len(st[r].load_calls) =>
                         \/ Done(r) /\ st[r].outcome = Raised("ModelLoadError")
                         \/ st[r].pc = "load_check"
                  /\ (k < Len(st[r].load_calls) /\ st[r].load_calls[k + 1].seen = 0) =>
                         st[r].load_calls[k + 1].init # "skipped"

\* a first call failed with the handle unset, and the caller's next call
\* initialized the model and returned it
C17_Witness ==
    \E r \in Reqs :
        /\ Len(st[r].load_calls) = 2
        /\ st[r].load_calls[1].init = "failed"
        /\ st[r].load_calls[1].before = 0
        /\ st[r].load_calls[2].seen = 0
        /\ st[r].load_calls[2].init = "ok"
        /\ st[r].load_calls[2].returned # 0

\* C18: a call whose check found the model unloaded runs the initialization
\* whatever the handle has become in the meantime, there being no second
\* check and no lock, so that the model is initialized once for every such
\* call that gets that far, and a new handle replaces the one in place.
C18_ColdStartsAllInitialize ==
    /\ \A c \in LoadCalls :
          /\ TheCall(c).seen = 0 => TheCall(c).init # "skipped"
          /\ TheCall(c).init = "ok" =>
                 /\ TheCall(c).seen = 0
                 /\ TheCall(c).after > TheCall(c).before
    /\ loads = Cardinality({c \in LoadCalls : TheCall(c).init = "ok"})

\* both callers found the model unloaded, both initialized it, and the second
\* initialization replaced the handle of the first
C18_Witness ==
    /\ loads = 2
    /\ \A r \in Reqs :
          /\ Len(st[r].load_calls) >= 1
          /\ st[r].load_calls[1].seen = 0
          /\ st[r].load_calls[1].init = "ok"
    /\ \E r \in Reqs : st[r].load_calls[1].before # 0

\* the request object of r has the attribute segment_length_minutes
CarriesSegmentLength(r) == "segment_length_minutes" \in DOMAIN st[r].input_data

\* r's request object carries a segment length outside the declared range
BadSegmentLength(r) ==
    /\ CarriesSegmentLength(r)
    /\ \/ st[r].input_data.segment_length_minutes < MinSegmentLengthMinutes
       \/ st[r].input_data.segment_length_minutes > MaxSegmentLengthMinutes

\* r has decoded its audio and found it empty
BadDuration(r) == PastDecode(r) /\ st[r].duration_ms <= 0

\* C19: a call of the driver with segment_length_minutes outside 1..24, or
\* with audio of duration <= 0, exports nothing, calls the model never, and
\* ends with the invalid-parameter error (unless the model or the audio could
\* not be loaded at all).
C19_InvalidParametersRejected ==
    \A r \in Reqs :
        (st[r].pc # "idle" /\ (BadSegmentLength(r) \/ BadDuration(r))) =>
            /\ st[r].exports = <<>>
            /\ st[r].calls = <<>>
            /\ ~st[r].in_model
            /\ Done(r) => st[r].outcome.error \in
                   {"InvalidParameterError", "ModelLoadError", "AudioDecodeError"}

\* r was started by the tool or the endpoint and is past line 264 of the driver
ToolRequestPastRead(r) ==
    /\ st[r].requested_minutes > 0
    /\ st[r].pc \notin {"idle", "load_check", "load_init", "load_return", "read_input"}
    /\ st[r].outcome # Raised("ModelLoadError")

\* C20: the segment_length_minutes given to the tool or the endpoint is an
\* attribute of the request object the driver receives, and the driver splits
\* by it: segment_length_ms is that many minutes, the audio is split exactly
\* when it is longer, and chunk k starts at k times that length.
C20_SegmentLengthCarried ==
    \A r \in Reqs :
        ToolRequestPastRead(r) =>
            LET s == st[r]
                L == SegmentLengthMs(s.requested_minutes)
            IN  /\ CarriesSegmentLength(r)
                /\ s.outcome # Raised("AttributeError")
                /\ s.segment_length_ms = L
                /\ PastDecode(r) => (s.num_segments > 0 <=> s.duration_ms > L)
                /\ \A k \in 1..Len(s.plan) : s.plan[k][1] = (k - 1) * L

\* s without its leading and trailing spaces
Trimmed(s) ==
    LET solid == {k \in 1..Len(s) : s[k] # " "}
    IN  IF solid = {} THEN <<>>
        ELSE SubSeq(s, CHOOSE k \in solid : \A m \in solid : k <= m,
                       CHOOSE k \in solid : \A m \in solid : k >= m)

\* the texts the reconciler gave for the chunks of r's run, in chunk order
ChunkTexts(r) ==
    [k \in 1..Len(st[r].outputs) |->
        ProcessOutput(st[r].outputs[k], st[r].input_data.include_timestamps,
                      SumDurations(st[r].plan, k - 1)).text]

\* C21: a multi-chunk run that succeeds returns the chunk texts joined by
\* single spaces in chunk order, trimmed: as a plain string exactly when
\* include_timestamps is false, in a TranscriptionResult exactly when true.
C21_JoinedTextAndReturnType ==
    \A r \in Reqs :
        (Returned(r) /\ st[r].num_segments > 0) =>
            /\ Len(st[r].outputs) = st[r].num_segments
            /\ st[r].outcome.text = Trimmed(Join(ChunkTexts(r)))
            /\ st[r].outcome.kind = "str" <=> ~st[r].input_data.include_timestamps
            /\ st[r].outcome.kind = "result" <=> st[r].input_data.include_timestamps

\* a run of three chunks whose last chunk was silent returned a result whose
\* text is shorter than the plain join
C21_Witness ==
    \E r \in Reqs :
        /\ Returned(r)
        /\ st[r].num_segments = 3
        /\ st[r].outcome.kind = "result"
        /\ Len(st[r].outcome.text) > 0
        /\ Len(st[r].outcome.text) < Len(Join(ChunkTexts(r)))

\* the timestamp attribute holds no recognizable structure: it is missing or
\* null, not a dict, or a dict whose lists are missing or empty
NoTimestampStructure(ts) ==
    \/ ts.kind \in {"none", "other"}
    \/ /\ ts.kind = "dict"
       /\ \A key \in {"word", "char", "segment"} : EntriesOf(ts[key]) = <<>>

BareString(out) == Len(out) > 0 /\ out[1].kind = "str" /\ Len(out[1].text) > 0

\* C27: a chunk whose model output is a bare non-empty string gets that string
\* as its text, whatever the offset and the timestamp flag: it is the return
\* value of a direct call, and in a multi-chunk run it is the chunk's entry
\* in the joined text while the chunk adds nothing to the timestamp lists.
C27_BareStringUnchanged ==
    \A r \in Reqs :
        LET s == st[r]
            n == Len(s.outputs)
        IN  /\ (Done(r) /\ s.num_segments = 0 /\ n = 1 /\ BareString(s.outputs[1])) =>
                   s.outcome = PlainText(s.outputs[1][1].text, <<>>)
            /\ s.num_segments > 0 =>
                   \A k \in 1..Len(s.all_texts) :
                       BareString(s.outputs[k]) =>
                           /\ s.all_texts[k] = s.outputs[k][1].text
                           /\ \A key \in TimestampKeys :
                                  ShiftedEntries(s.outputs, s.plan, key, k) = <<>>
            /\ (AggregatedResult(r) /\ \A k \in 1..n : BareString(s.outputs[k])) =>
                   /\ s.outcome.text = Trimmed(Join([k \in 1..n |-> s.outputs[k][1].text]))
                   /\ \A key \in TimestampKeys : ResultList(s.outcome, key) = <<>>

\* a run with timestamps returned after its second chunk, at a non-zero
\* offset, came back as a bare string and its first chunk gave word entries
C27_Witness ==
    \E r \in Reqs :
        /\ AggregatedResult(r)
        /\ BareString(st[r].outputs[2])
        /\ st[r].calls[2].offset > 0
        /\ ~BareString(st[r].outputs[1])
        /\ Len(st[r].outcome.word_timestamps) > 0

(***************************************************************************)
(* The formatter.                                                          *)
(***************************************************************************)
RECURSIVE SplitAt(_, _, _, _)
\* the pieces of s between separator characters
SplitAt(s, seps, cur, acc) ==
    IF Len(s) = 0 THEN Append(acc, cur)
    ELSE IF Head(s) \in seps THEN SplitAt(Tail(s), seps, <<>>, Append(acc, cur))
    ELSE SplitAt(Tail(s), seps, Append(cur, Head(s)), acc)

OutputLines(out) == IF Len(out) = 0 THEN <<>> ELSE SplitAt(out, {"\n"}, <<>>, <<>>)

NonEmpty(piece) == Len(piece) > 0

\* the output split on newlines and spaces
Pieces(out) == SelectSeq(SplitAt(out, {"\n", " "}, <<>>, <<>>), NonEmpty)

IsMarker(piece) ==
    /\ Len(piece) >= 3
    /\ piece[1] = "["
    /\ piece[Len(piece) - 1] = "s"
    /\ piece[Len(piece)] = "]"

IsWord(piece) == ~IsMarker(piece)

\* the output split on newlines and spaces, time markers removed
OutputWords(out) == SelectSeq(Pieces(out), IsWord)

HasText(word_obj) == \E k \in 1..Len(word_obj.word) : word_obj.word[k] # " "

\* the input words that are neither empty nor whitespace only
NonBlank(words) == SelectSeq(words, HasText)

AllTimed(words) == \A k \in 1..Len(words) : words[k].start_time.t = "num"

RECURSIVE WordsBefore(_, _)
\* how many words the lines before line n hold
WordsBefore(lines, n) ==
    IF n <= 1 THEN 0
    ELSE WordsBefore(lines, n - 1) + Len(OutputWords(lines[n - 1]))

FormatReturned == rc_out.kind = "formatted" /\ Len(rc_in.transcription_data.word_timestamps) > 0

HelloWorld == <<FormatWord(Hello, VNum(100)), FormatWord(World, VNum(600))>>

C24_WordsKeptBlankSkipped ==
    FormatReturned =>
        LET data == rc_in.transcription_data
            words == NonBlank(data.word_timestamps)
        IN  /\ OutputWords(rc_out.text) = [k \in 1..Len(words) |-> words[k].word]
            /\ Len(words) > 0 =>
                   rc_out.text = FormatOutput(FormatData("result", data.text, words),
                                              rc_in.line_char_limit)

\* a blank word between two words that end up on different lines
C24_Witness ==
    /\ FormatReturned
    /\ Len(rc_in.transcription_data.word_timestamps) = 3
    /\ HasText(rc_in.transcription_data.word_timestamps[1])
    /\ ~HasText(rc_in.transcription_data.word_timestamps[2])
    /\ HasText(rc_in.transcription_data.word_timestamps[3])
    /\ Len(OutputLines(rc_out.text)) = 2

\* C30: every output line that holds two or more words has length, marker
\* included, at most line_char_limit.
C30_MultiWordLinesFit ==
    FormatReturned =>
        \A n \in 1..Len(OutputLines(rc_out.text)) :
            Len(OutputWords(OutputLines(rc_out.text)[n])) >= 2 =>
                Len(OutputLines(rc_out.text)[n]) <= rc_in.line_char_limit

\* an output with a line of two words and a one-word line longer than the
\* limit
C30_Witness ==
    /\ FormatReturned
    /\ \E n \in 1..Len(OutputLines(rc_out.text)) :
           Len(OutputWords(OutputLines(rc_out.text)[n])) >= 2
    /\ \E n \in 1..Len(OutputLines(rc_out.text)) :
           /\ Len(OutputWords(OutputLines(rc_out.text)[n])) = 1
           /\ Len(OutputLines(rc_out.text)[n]) > rc_in.line_char_limit

\* the marker of a word, without the space that follows it
OwnMarker(word_obj) ==
    SubSeq(Marker(word_obj.start_time.n), 1, Len(Marker(word_obj.start_time.n)) - 1)

\* C23: when timestamps are requested and the result has word timestamps,
\* the tool's response has the message "Transcription successful with
\* formatted timestamps." and a transcription in which every word is preceded
\* by its own marker.
C23_EveryWordHasOwnMarker ==
    LET data == rc_in.transcription_data
        words == data.word_timestamps
    IN  (/\ rc_out.kind = "response"
         /\ rc_in.include_timestamps
         /\ data.kind = "result"
         /\ Len(words) > 0
         /\ AllTimed(words)
         /\ NonBlank(words) = words) =>
            /\ rc_out.message = "Transcription successful with formatted timestamps."
            /\ Pieces(rc_out.transcription) =
                   [k \in 1..(2 * Len(words)) |->
                       IF k % 2 = 1 THEN OwnMarker(words[(k + 1) \div 2])
                       ELSE words[k \div 2].word]

(***************************************************************************)
(* The transcribe_audio tool.                                              *)
(***************************************************************************)
\* an audio_file_path that is empty, relative, or names no file
BadPath(path) ==
    \/ path = NoPath
    \/ path.dir = ""
    \/ path \notin SourceFiles

OwnFiles(r) == {f \in disk : f.writer = r}

\* C25: a tool call given an empty, relative or non-existent path ends with a
\* ToolError and has processed nothing: no conversion was run and no file
\* written, load_model was not called, and the driver was never entered.
C25_BadPathRejectedBeforeProcessing ==
    \A r \in Reqs :
        (st[r].tool.pc # "none" /\ BadPath(st[r].tool.audio_file_path)) =>
            /\ st[r].tool.pc \in {"check_path", "returned"}
            /\ st[r].tool.pc = "returned" =>
                   /\ st[r].tool.outcome = "ToolError"
                   /\ st[r].tool.error \in {"empty", "relative", "not_found"}
            /\ st[r].tool.converted_audio_path = NoPath
            /\ st[r].tool.wrote = NoPath
            /\ OwnFiles(r) = {}
            /\ st[r].pc = "idle"
            /\ st[r].load_calls = <<>>
            /\ st[r].calls = <<>>

\* a call with a relative path to an existing file has been rejected while
\* another call has converted its file
C25_Witness ==
    \E r \in Reqs, q \in Reqs :
        /\ st[r].tool.pc = "returned"
        /\ st[r].tool.audio_file_path = RelativeA
        /\ st[r].tool.error = "relative"
        /\ st[q].tool.pc = "converted"

\* C28: when a tool call whose conversion returned a converted file has
\* returned or raised, its cleanup has run on that file: the file the call
\* wrote is no longer on disk, unless its removal failed, which is only
\* logged.
C28_ConvertedFileRemovedAtExit ==
    \A r \in Reqs :
        (st[r].tool.pc = "returned" /\ st[r].tool.converted_audio_path # NoPath) =>
            /\ st[r].tool.cleanup \in {"removed", "failed", "missing"}
            /\ st[r].tool.cleanup # "failed" =>
                   ~\E f \in OwnFiles(r) : f.path = st[r].tool.converted_audio_path
            /\ st[r].tool.cleanup = "removed" =>
                   ~Exists(disk, st[r].tool.converted_audio_path)
                   \/ \E q \in Reqs \ {r} :
                          [path |-> st[r].tool.converted_audio_path, writer |-> q] \in disk

\* a call whose transcription raised has removed its converted file
C28_Witness ==
    \E r \in Reqs :
        /\ st[r].tool.pc = "returned"
        /\ st[r].tool.converted_audio_path # NoPath
        /\ st[r].tool.outcome = "ToolError"
        /\ st[r].tool.cleanup = "removed"
        /\ disk = {}

\* C29: between a tool call's conversion and its own cleanup, the file at its
\* converted path is the one the call wrote.
C29_ConvertedFileIsOwn ==
    \A r \in Reqs :
        st[r].tool.pc = "converted" =>
            [path |-> st[r].tool.converted_audio_path, writer |-> r] \in disk

====
